---- MODULE Spec2Model ----
(***************************************************************************)
(* Anomaly-detection pipeline of the MRI viewer backend                    *)
(* (backend/app/ai: preprocessing.py, detector.py, model.py,               *)
(* postprocessing.py).                                                     *)
(*                                                                         *)
(* Numbers.  numpy float64 values are modelled as exact rationals kept as  *)
(* integer numerators over a stated denominator:                           *)
(*   - a preprocessed image holds k in 0..255 and means k/255 (this is     *)
(*     exactly what resize_for_model returns: uint8 / 255.0);              *)
(*   - a mask is a record [num, den] and means num[r,c]/den;               *)
(*   - a sensitivity is j in 0..SensDen and means j/SensDen.               *)
(* Comparisons are made by cross-multiplication or, where the products     *)
(* would leave 32 bits, by FracLess / MulDiv below.  Rounding error of the *)
(* float64 operations is not modelled.                                     *)
(*                                                                         *)
(* Grids are functions over Idx \X Idx, row r and column c counted from 1  *)
(* (numpy counts from 0: bounding boxes subtract 1).                       *)
(***************************************************************************)
EXTENDS Integers, Sequences, FiniteSets, TLC

(***************************************************************************)
(* Bounds of the model.                                                    *)
(***************************************************************************)
\* Side of the square grid every request is resized to.  The code uses
\* target_size = 256 (detector.py:148); the model scales it down.  Raw
\* images are drawn with this side too, and for them PIL's resize returns a
\* copy, so resampling does not enter the model.
TargetSize == 17
\* Sensitivities are the fractions j/SensDen, j in 0..SensDen.
SensDen == 6
\* Number of coroutines using the PACS client concurrently.
NTasks == 3
\* Number of HTTP clients the service creates at most.
MaxClients == 3
\* Number of threads calling _get_model concurrently.
NThreads == 3

(***************************************************************************)
(* Program constants.                                                      *)
(***************************************************************************)
MaxByte == 255            \* uint8 range used by resize_for_model / heatmap
BrainThrInv == 10         \* brain_mask = image > 0.1   (0.1 = 1/10)
ErosionIters == 3         \* binary_erosion(brain_mask, iterations=3)
MinTissue == 100          \* brain_mask.sum() < 100
StdEpsInv == 1000000      \* tissue_std < 1e-6          (1e-6 = 1/10^6)
OpeningIters == 2         \* binary_opening(..., iterations=2)
ClosingIters == 2         \* binary_closing(..., iterations=2)
MinSizeFloor == 10        \* min_size = max(10, int(20 * sensitivity))
MinSizeScale == 20
GaussRadius == 8          \* gaussian_filter(sigma=2.0): int(4.0 * 2.0 + 0.5)

Idx == 1..TargetSize
Cells == Idx \X Idx
NoGrid == <<>>

(***************************************************************************)
(* Arithmetic helpers.                                                     *)
(***************************************************************************)
Max(a, b) == IF a >= b THEN a ELSE b
Min(a, b) == IF a <= b THEN a ELSE b
Abs(a) == IF a >= 0 THEN a ELSE 0 - a

\* Evaluates a grid once (TLC keeps a function constructor unevaluated
\* until it is compared); the value is g itself.
Force(g) == IF g = NoGrid THEN g ELSE g

\* a/b < c/d for a, c >= 0 and b, d > 0, by the continued-fraction
\* expansion, so that no product is formed.
RECURSIVE FracLess(_, _, _, _)
FracLess(a, b, c, d) ==
    LET qa == a \div b
        qc == c \div d
        ra == a % b
        rc == c % d
    IN  IF qa /= qc THEN qa < qc
        ELSE IF rc = 0 THEN FALSE
        ELSE IF ra = 0 THEN TRUE
        ELSE FracLess(d, rc, b, ra)

\* <<q, r>> with c * m = q * d + r and 0 <= r < d, by binary long
\* multiplication (c >= 0, m >= 0, d > 0).
RECURSIVE MulDiv(_, _, _)
MulDiv(c, m, d) ==
    IF m = 0 THEN <<0, 0>>
    ELSE LET h == MulDiv(c, m \div 2, d)
             r2 == 2 * h[2] + (IF m % 2 = 1 THEN c % d ELSE 0)
             q2 == 2 * h[1] + (IF m % 2 = 1 THEN c \div d ELSE 0)
         IN  <<q2 + (r2 \div d), r2 % d>>

CeilDiv(a, b) == (a + b - 1) \div b

\* Sum of f[i] for i in lo..hi, by halving (the depth of the recursion
\* stays logarithmic).
RECURSIVE SumRange(_, _, _)
SumRange(f, lo, hi) ==
    IF lo > hi THEN 0
    ELSE IF lo = hi THEN f[lo]
    ELSE LET mid == (lo + hi) \div 2
         IN  SumRange(f, lo, mid) + SumRange(f, mid + 1, hi)

SetMax(S) == CHOOSE x \in S : \A y \in S : y <= x
SetMin(S) == CHOOSE x \in S : \A y \in S : x <= y

(***************************************************************************)
(* Grids.                                                                  *)
(***************************************************************************)
ConstGrid(v) == [r \in Idx, c \in Idx |-> v]
TrueCells(b) == {p \in Cells : b[p]}
\* Sum of the grid g over the set S of cells.
CellAt(i) == <<((i - 1) \div TargetSize) + 1, ((i - 1) % TargetSize) + 1>>
SumCells(g, S) ==
    SumRange([i \in 1..(TargetSize * TargetSize) |->
                 IF CellAt(i) \in S THEN g[CellAt(i)] ELSE 0],
             1, TargetSize * TargetSize)
GridMax(g) == SetMax({g[p] : p \in Cells})
GridMin(g) == SetMin({g[p] : p \in Cells})
\* Boolean grid read with the value `border` outside the image
\* (scipy.ndimage border_value).
At(b, r, c, border) ==
    IF r \in Idx /\ c \in Idx THEN b[r, c] ELSE border


(***************************************************************************)
(* Raw inputs.  A raw frame is a grid of integers (DICOM / JPEG pixel      *)
(* values); pixel_array is [ndim, frames]: its number of dimensions and    *)
(* the 2-D frames it holds along its leading axis.                         *)
(***************************************************************************)
InRect(r, c, b) ==
    /\ r >= b.r /\ r < b.r + b.h
    /\ c >= b.c /\ c < b.c + b.w
InDiamond(r, c, b) == Abs(r - b.r) + Abs(c - b.c) <= b.rad
InBlob(r, c, b) ==
    IF b.kind = "rect" THEN InRect(r, c, b) ELSE InDiamond(r, c, b)
Rect(r0, c0, hh, ww, v) ==
    [kind |-> "rect", r |-> r0, c |-> c0, h |-> hh, w |-> ww, rad |-> 0, v |-> v]
Diamond(r0, c0, rr, v) ==
    [kind |-> "diamond", r |-> r0, c |-> c0, h |-> 0, w |-> 0, rad |-> rr, v |-> v]

\* A frame: value `base`, with `bg` in a margin of `margin` pixels and in the
\* four cut corners, overlaid by the blobs (the first that covers a pixel).
InCorner(r, c, cut) ==
    LET rr == Min(r, TargetSize + 1 - r)
        cc == Min(c, TargetSize + 1 - c)
    IN  rr + cc <= cut
Frame(bg, base, margin, cut, blobs) ==
    [r \in Idx, c \in Idx |->
        IF \E i \in 1..Len(blobs) : InBlob(r, c, blobs[i])
        THEN blobs[CHOOSE i \in 1..Len(blobs) :
                      /\ InBlob(r, c, blobs[i])
                      /\ \A j \in 1..(i - 1) : ~InBlob(r, c, blobs[j])].v
        ELSE IF \/ r <= margin \/ r > TargetSize - margin
                \/ c <= margin \/ c > TargetSize - margin
                \/ InCorner(r, c, cut)
             THEN bg
             ELSE base]

(***************************************************************************)
(* preprocessing.py                                                        *)
(***************************************************************************)
\* A normalization without the max = min branch: the image is returned as
\* it is.
normalize_pixel_data_unguarded(frame) ==
    LET min_val == GridMin(frame)
        max_val == GridMax(frame)
    IN  IF max_val > min_val
        THEN [num |-> Force([r \in Idx, c \in Idx |-> frame[r, c] - min_val]),
              den |-> max_val - min_val]
        ELSE [num |-> frame, den |-> 1]
\* normalize_pixel_data: (img - min) / (max - min), or zeros when max = min.
\* The result is the rational grid num/den.
normalize_pixel_data(frame) ==
    LET min_val == GridMin(frame)
        max_val == GridMax(frame)
    IN  IF max_val > min_val
        THEN [num |-> Force([r \in Idx, c \in Idx |-> frame[r, c] - min_val]),
              den |-> max_val - min_val]
        ELSE [num |-> ConstGrid(0), den |-> 1]

\* resize_for_model on a float image of side TargetSize:
\* (np.clip(image, 0, 1) * 255).astype(np.uint8), PIL resize to the same
\* size (a copy), then / 255.0.  The result is the grid of the bytes k,
\* meaning k/255.
resize_for_model(image) ==
    Force([r \in Idx, c \in Idx |->
        LET x == Min(Max(image.num[r, c], 0), image.den)
        IN  (x * MaxByte) \div image.den])

\* preprocess_for_detection: "raise" for an input that is not 2-D after the
\* first-frame reduction, else the preprocessed grid.
preprocess_ndim(pixel_array) ==
    IF pixel_array.ndim = 3 THEN 2 ELSE pixel_array.ndim
\* A check that lets every array of two or more dimensions through.
preprocess_raises_below_2d(pixel_array) == preprocess_ndim(pixel_array) < 2
preprocess_raises(pixel_array) == preprocess_ndim(pixel_array) /= 2
preprocess_for_detection(pixel_array) ==
    resize_for_model(normalize_pixel_data(pixel_array.frames[1]))

(***************************************************************************)
(* scipy.ndimage binary morphology, default structuring element (the       *)
(* 4-neighbour cross) and border_value = 0.                                *)
(***************************************************************************)
Erode1(b) ==
    Force([r \in Idx, c \in Idx |->
        /\ b[r, c]
        /\ At(b, r - 1, c, FALSE) /\ At(b, r + 1, c, FALSE)
        /\ At(b, r, c - 1, FALSE) /\ At(b, r, c + 1, FALSE)])
Dilate1(b) ==
    Force([r \in Idx, c \in Idx |->
        \/ b[r, c]
        \/ At(b, r - 1, c, FALSE) \/ At(b, r + 1, c, FALSE)
        \/ At(b, r, c - 1, FALSE) \/ At(b, r, c + 1, FALSE)])
RECURSIVE binary_erosion(_, _)
binary_erosion(b, iterations) ==
    IF iterations = 0 THEN b ELSE binary_erosion(Erode1(b), iterations - 1)
RECURSIVE binary_dilation(_, _)
binary_dilation(b, iterations) ==
    IF iterations = 0 THEN b ELSE binary_dilation(Dilate1(b), iterations - 1)
binary_opening(b, iterations) ==
    binary_dilation(binary_erosion(b, iterations), iterations)
binary_closing(b, iterations) ==
    binary_erosion(binary_dilation(b, iterations), iterations)

(***************************************************************************)
(* scipy.ndimage.label, default structure (4-connectivity): the connected  *)
(* components of the true cells, numbered in raster order of their first   *)
(* cell.  The result is the sequence of the components (sets of cells);    *)
(* component i is the set `labeled == i`.                                  *)
(***************************************************************************)
Neighbours(p) ==
    {<<p[1] - 1, p[2]>>, <<p[1] + 1, p[2]>>, <<p[1], p[2] - 1>>, <<p[1], p[2] + 1>>}
RasterIndex(p) == (p[1] - 1) * TargetSize + p[2]
FirstCell(S) == CHOOSE p \in S : \A q \in S : RasterIndex(p) <= RasterIndex(q)
RECURSIVE Flood(_, _, _)
Flood(S, frontier, seen) ==
    IF frontier = {} THEN seen
    ELSE LET next == (UNION {Neighbours(p) : p \in frontier} \cap S) \ seen
         IN  Flood(S, next, seen \cup next)
RECURSIVE LabelCells(_)
LabelCells(S) ==
    IF S = {} THEN <<>>
    ELSE LET p == FirstCell(S)
             comp == Flood(S, {p}, {p})
         IN  <<comp>> \o LabelCells(S \ comp)
label(b) == LabelCells(TrueCells(b))

(***************************************************************************)
(* detector.py: detect_anomalies_image_processing.  `image` is a grid of   *)
(* bytes k (meaning k/255), `sens` a sensitivity numerator.                *)
(***************************************************************************)
\* brain_mask = binary_erosion(image > 0.1, iterations=3)
tissue_threshold(image) ==
    Force([r \in Idx, c \in Idx |-> image[r, c] * BrainThrInv > MaxByte])
brain_mask_of(image) == binary_erosion(tissue_threshold(image), ErosionIters)

\* Statistics of image[brain_mask]: the count n, the sum and the sum of
\* squares of the bytes.  tissue_mean = sum / (n * 255) and
\* tissue_std = sqrt(n * sumsq - sum^2) / (n * 255).
tissue_stats(image, brain) ==
    LET T == TrueCells(brain)
        sq == Force([r \in Idx, c \in Idx |-> image[r, c] * image[r, c]])
    IN  [n |-> Cardinality(T), sum |-> SumCells(image, T), sumsq |-> SumCells(sq, T)]
VarNum(st) == st.n * st.sumsq - st.sum * st.sum

\* A check that only catches an empty tissue mask.
insufficient_tissue_empty(brain) == TrueCells(brain) = {}
\* brain_mask.sum() < 100
insufficient_tissue(brain) == Cardinality(TrueCells(brain)) < MinTissue
\* tissue_std < 1e-6, i.e. VarNum < (n * 255 / 10^6)^2
std_below_eps(st) ==
    VarNum(st) < CeilDiv(CeilDiv((st.n * MaxByte) * (st.n * MaxByte), StdEpsInv), StdEpsInv)

\* threshold_std = max(3.0 - sensitivity * 2.0, 0.5), as the fraction num/den
threshold_std(sens) ==
    [num |-> Max(2 * (3 * SensDen - 2 * sens), SensDen), den |-> 2 * SensDen]
\* a / (n * 255) > threshold_std * tissue_std, for the deviation numerator a
exceeds_threshold(a, st, t) ==
    a > 0 /\ FracLess(VarNum(st), a * a, t.den * t.den, t.num * t.num)
\* hyper_mask | hypo_mask
anomaly_threshold(image, brain, st, sens) ==
    LET t == threshold_std(sens)
    IN  Force([r \in Idx, c \in Idx |->
            /\ brain[r, c]
            /\ \/ exceeds_threshold(st.n * image[r, c] - st.sum, st, t)
               \/ exceeds_threshold(st.sum - st.n * image[r, c], st, t)])

\* A minimum size that rounds 20 * sensitivity to the nearest integer.
min_size_of_rounded(sens) ==
    Max(MinSizeFloor, (2 * MinSizeScale * sens + SensDen) \div (2 * SensDen))
\* min_size = max(10, int(20 * sensitivity))
min_size_of(sens) == Max(MinSizeFloor, (MinSizeScale * sens) \div SensDen)

\* A loop that labels the mask again after it has zeroed a component, and
\* goes on with the next index of the new labelling.
RECURSIVE prune_components_relabel(_, _, _, _)
prune_components_relabel(anomaly, labeled, i, least) ==
    IF i > Len(labeled) THEN anomaly
    ELSE IF Cardinality(labeled[i]) < least
         THEN LET zeroed == Force([r \in Idx, c \in Idx |->
                                     anomaly[r, c] /\ <<r, c>> \notin labeled[i]])
              IN  prune_components_relabel(zeroed, label(zeroed), i + 1, least)
         ELSE prune_components_relabel(anomaly, labeled, i + 1, least)
\* for i in range(1, num_features + 1):
\*     if (labeled == i).sum() < min_size: anomaly_binary[labeled == i] = False
\* (`least` is min_size)
RECURSIVE prune_components(_, _, _, _)
prune_components(anomaly, labeled, i, least) ==
    IF i > Len(labeled) THEN anomaly
    ELSE prune_components(
            IF Cardinality(labeled[i]) < least
            THEN Force([r \in Idx, c \in Idx |->
                        anomaly[r, c] /\ <<r, c>> \notin labeled[i]])
            ELSE anomaly,
            labeled, i + 1, least)

\* Lines 92-98: the thresholded mask, opened and closed.
cleaned_of(image, brain, st, sens) ==
    binary_closing(
        binary_opening(anomaly_threshold(image, brain, st, sens), OpeningIters),
        ClosingIters)
\* Lines 92-104: the cleaned and pruned anomaly mask.
anomaly_binary_of(image, brain, st, sens) ==
    LET cleaned == cleaned_of(image, brain, st, sens)
    IN  prune_components(cleaned, label(cleaned), 1, min_size_of(sens))

\* The deviation without np.abs.
deviation_signed(st, k) == st.n * k - st.sum
\* np.abs(image - tissue_mean), times n * 255
deviation(st, k) == Abs(st.n * k - st.sum)
\* z_scores = np.abs(image - tissue_mean) / tissue_std * brain_mask, and
\* probability = z_scores / max_z: tissue_std cancels, the numerators are
\* the deviations and the denominator is their maximum.
z_probability(image, brain, st) ==
    LET d == Force([r \in Idx, c \in Idx |->
                        IF brain[r, c] THEN deviation(st, image[r, c]) ELSE 0])
        max_z == GridMax(d)
    IN  IF max_z > 0 THEN [num |-> d, den |-> max_z]
        ELSE [num |-> ConstGrid(0), den |-> 1]

\* scipy.ndimage.gaussian_filter(sigma=2.0): a separable kernel of radius 8
\* with mode "reflect".  The float weights exp(-x^2/8) / sum are modelled
\* by the integer weights below over their sum (exp(-x^2/8) * 6, rounded),
\* which keeps the kernel non-negative, symmetric and of total weight 1.
GaussWeights == <<6, 5, 4, 2, 1, 0, 0, 0, 0>>
GaussOffsets == (0 - GaussRadius)..GaussRadius
GaussSum ==
    SumRange([x \in GaussOffsets |-> GaussWeights[Abs(x) + 1]], 0 - GaussRadius, GaussRadius)
Reflect(i) ==
    IF i < 1 THEN 1 - i
    ELSE IF i > TargetSize THEN 2 * TargetSize + 1 - i
    ELSE i
correlate_rows(g) ==
    Force([r \in Idx, c \in Idx |->
        SumRange([x \in GaussOffsets |-> GaussWeights[Abs(x) + 1] * g[Reflect(r + x), c]],
                 0 - GaussRadius, GaussRadius)])
correlate_cols(g) ==
    Force([r \in Idx, c \in Idx |->
        SumRange([x \in GaussOffsets |-> GaussWeights[Abs(x) + 1] * g[r, Reflect(c + x)]],
                 0 - GaussRadius, GaussRadius)])
gaussian_filter(m) ==
    [num |-> correlate_cols(correlate_rows(m.num)),
     den |-> m.den * GaussSum * GaussSum]

\* A detector that returns the smoothed mask without re-normalizing it.
renormalize_skipped(m) == m
\* Lines 119-127: mask by the anomaly regions, smooth, re-normalize.
renormalize(m) ==
    LET max_prob == GridMax(m.num)
    IN  IF max_prob > 0 THEN [num |-> m.num, den |-> max_prob] ELSE m
probability_of(image, brain, st, anomaly) ==
    LET z == z_probability(image, brain, st)
        masked == [num |-> Force([r \in Idx, c \in Idx |->
                                    IF anomaly[r, c] THEN z.num[r, c] ELSE 0]),
                   den |-> z.den]
    IN  renormalize(gaussian_filter(masked))

\* np.zeros_like(image)
ZeroMask == [num |-> ConstGrid(0), den |-> 1]

\* The whole function, as one value (the actions below run it in stages).
detect_anomalies_image_processing(image, sens) ==
    LET brain == brain_mask_of(image)
        st == tissue_stats(image, brain)
    IN  IF insufficient_tissue(brain) THEN ZeroMask
        ELSE IF std_below_eps(st) THEN ZeroMask
        ELSE probability_of(image, brain, st,
                            anomaly_binary_of(image, brain, st, sens))

(***************************************************************************)
(* postprocessing.py                                                       *)
(***************************************************************************)
\* A threshold that lets the values equal to it through.
mask_at_or_above(num, den, t) == ~FracLess(num, den, t.num, t.den)
\* mask value num/den > t.num/t.den (t.num may be negative: \div and % round
\* down, so FracLess compares the whole parts first)
mask_above(num, den, t) == FracLess(t.num, t.den, num, den)

\* The confidence [sum, area, den] means sum / (area * den): the mean of the
\* mask over a region of `area` cells whose numerators add up to `sum`.
ConfLess(a, b) == FracLess(a.sum, a.area, b.sum, b.area)

\* A "moderate" tier that looks at the area only.
severity_of_area_only(pk, den, area) ==
    IF FracLess(4, 5, pk, den) /\ area > 100 THEN "high"
    ELSE IF area > 50 THEN "moderate"
    ELSE "low"
\* A "high" tier reached by the peak or the area alone.
severity_of_either(pk, den, area) ==
    IF FracLess(4, 5, pk, den) \/ area > 100 THEN "high"
    ELSE IF FracLess(1, 2, pk, den) \/ area > 50 THEN "moderate"
    ELSE "low"
\* Severity from peak (pk/den) and area, lines 158-163.
severity_of(pk, den, area) ==
    IF FracLess(4, 5, pk, den) /\ area > 100 THEN "high"
    ELSE IF FracLess(1, 2, pk, den) \/ area > 50 THEN "moderate"
    ELSE "low"

_describe_finding(severity) ==
    IF severity = "high"
    THEN "Hyperintense region detected with significant deviation from normal tissue"
    ELSE IF severity = "moderate" THEN "Hyperintense region detected"
    ELSE "Subtle intensity variation detected"

\* A bounding box whose width and height leave out the +1.
bounding_box_exclusive(region) ==
    LET rows == {p[1] : p \in region}
        cols == {p[2] : p \in region}
    IN  [x |-> SetMin(cols) - 1,
         y |-> SetMin(rows) - 1,
         width |-> SetMax(cols) - SetMin(cols),
         height |-> SetMax(rows) - SetMin(rows)]
\* Lines 145-150 and 172-175: rmin, rmax, cmin, cmax are the first and last
\* rows and columns that hold a cell of the region; x, y count from 0.
bounding_box(region) ==
    LET rows == {p[1] : p \in region}
        cols == {p[2] : p \in region}
        rmin == SetMin(rows)
        rmax == SetMax(rows)
        cmin == SetMin(cols)
        cmax == SetMax(cols)
    IN  [x |-> cmin - 1,
         y |-> rmin - 1,
         width |-> cmax - cmin + 1,
         height |-> rmax - rmin + 1]

\* region_mask = mask * region; peak = region_mask.max() (lines 142, 154):
\* the maximum over the whole image of the mask with the cells outside the
\* region set to 0.
region_peak(mask, region) ==
    SetMax({IF p \in region THEN mask.num[p] ELSE 0 : p \in Cells})
\* The Finding of component i (lines 141-178).  `label` is the component's
\* label, kept to state the order of encounter; finding_id (a random uuid)
\* is left out.
finding_of(mask, region, i) ==
    LET box == bounding_box(region)
        area == Cardinality(region)
        peak == region_peak(mask, region)
        severity == severity_of(peak, mask.den, area)
    IN  [label |-> i,
         finding_type |-> "anomaly",
         description |-> _describe_finding(severity),
         confidence |-> [sum |-> SumCells(mask.num, region), area |-> area,
                         den |-> mask.den],
         x |-> box.x,
         y |-> box.y,
         width |-> box.width,
         height |-> box.height,
         severity |-> severity]

\* findings.sort(key=lambda f: f.confidence, reverse=True): a stable sort,
\* equal confidences keep their order.
RECURSIVE insert_sorted(_, _)
insert_sorted(sorted, f) ==
    IF sorted = <<>> THEN <<f>>
    ELSE IF ConfLess(Head(sorted).confidence, f.confidence)
         THEN <<f>> \o sorted
         ELSE <<Head(sorted)>> \o insert_sorted(Tail(sorted), f)
RECURSIVE sort_findings(_, _)
sort_findings(sorted, rest) ==
    IF rest = <<>> THEN sorted
    ELSE sort_findings(insert_sorted(sorted, Head(rest)), Tail(rest))

\* Lines 136-178: the findings in the order of their labels.
found_components(mask, threshold) ==
    LET binary == Force([r \in Idx, c \in Idx |->
                            mask_above(mask.num[r, c], mask.den, threshold)])
        labeled == label(binary)
    IN  [i \in 1..Len(labeled) |-> finding_of(mask, labeled[i], i)]
\* A sort in ascending order that is then reversed: equal confidences come
\* out in the reverse of their order of encounter.
extract_findings_reversed(mask, threshold) ==
    LET found == found_components(mask, threshold)
    IN  sort_findings(<<>>, [i \in 1..Len(found) |-> found[Len(found) + 1 - i]])
extract_findings_from_mask(mask, threshold) ==
    sort_findings(<<>>, found_components(mask, threshold))

\* An alpha channel that ignores the mask: alpha_scale * 255 everywhere.
alpha_of_unscaled(num, den, a) == MulDiv(den, a.num * MaxByte, a.den * den)[1]
\* An alpha channel rounded to the nearest integer instead of truncated.
alpha_of_rounded(num, den, a) ==
    LET h == MulDiv(Min(Max(num, 0), den), a.num * MaxByte, a.den * den)
    IN  h[1] + (IF 2 * h[2] >= a.den * den THEN 1 ELSE 0)
\* mask_to_heatmap_png: the alpha channel of the RGBA image,
\* (np.clip(mask, 0, 1) * alpha_scale * 255).astype(np.uint8), with
\* alpha_scale the fraction a.num/a.den.  The colour channels and the PNG
\* and base64 encodings (lossless) are left out.
alpha_of(num, den, a) ==
    LET x == Min(Max(num, 0), den)
    IN  MulDiv(x, a.num * MaxByte, a.den * den)[1]
mask_to_heatmap_png(mask, alpha_scale) ==
    Force([r \in Idx, c \in Idx |-> alpha_of(mask.num[r, c], mask.den, alpha_scale)])

\* round(x, 3) of the confidence x, in thousandths (ties to even).
round3(conf) ==
    LET h == MulDiv(conf.sum, 2000, conf.den)
        twice == h[1] \div conf.area
        exact == h[2] = 0 /\ h[1] % conf.area = 0
        base == twice \div 2
    IN  IF twice % 2 = 0 THEN base
        ELSE IF exact /\ base % 2 = 0 THEN base
        ELSE base + 1

RECURSIVE max_conf_of(_)
max_conf_of(findings) ==
    IF Len(findings) = 1 THEN findings[1].confidence
    ELSE LET m == max_conf_of(Tail(findings))
         IN  IF ConfLess(findings[1].confidence, m) THEN m
             ELSE findings[1].confidence

\* A summary that looks for a "moderate" finding before a "high" one.
generate_summary_moderate_first(fs) ==
    LET has_high == \E i \in 1..Len(fs) : fs[i].severity = "high"
        has_moderate == \E i \in 1..Len(fs) : fs[i].severity = "moderate"
    IN  [total_findings |-> Len(fs),
         max_confidence |-> IF fs = <<>> THEN 0 ELSE round3(max_conf_of(fs)),
         regions_analyzed |-> 1,
         recommendation |->
             IF fs = <<>> THEN "No significant anomalies detected."
             ELSE IF has_moderate
             THEN "Regions of interest detected. Clinical review recommended."
             ELSE IF has_high
             THEN "Significant regions of interest detected. Urgent clinical review recommended."
             ELSE "Minor variations detected. Routine follow-up may be sufficient."]
\* generate_summary; max_confidence is in thousandths.
generate_summary(findings) ==
    IF findings = <<>>
    THEN [total_findings |-> 0,
          max_confidence |-> 0,
          regions_analyzed |-> 1,
          recommendation |-> "No significant anomalies detected."]
    ELSE LET has_high == \E i \in 1..Len(findings) : findings[i].severity = "high"
             has_moderate == \E i \in 1..Len(findings) : findings[i].severity = "moderate"
         IN  [total_findings |-> Len(findings),
              max_confidence |-> round3(max_conf_of(findings)),
              regions_analyzed |-> 1,
              recommendation |->
                  IF has_high
                  THEN "Significant regions of interest detected. Urgent clinical review recommended."
                  ELSE IF has_moderate
                  THEN "Regions of interest detected. Clinical review recommended."
                  ELSE "Minor variations detected. Routine follow-up may be sufficient."]

\* Finding.to_dict
to_dict(f) ==
    [type |-> f.finding_type,
     description |-> f.description,
     confidence |-> round3(f.confidence),
     location |-> [x |-> f.x, y |-> f.y, width |-> f.width, height |-> f.height],
     severity |-> f.severity]

(***************************************************************************)
(* postprocessing.py:153 in floating point.  region_mask[region].mean() is *)
(* computed by NumPy in binary floating point, rounding to nearest (ties   *)
(* to even) after every addition and after the division.  A float is a     *)
(* whole number k of units, the unit being the smallest positive float:    *)
(* every k below 2^MantissaBits is a float (gradual underflow), larger     *)
(* floats keep MantissaBits significant bits.  binary64 keeps 53.          *)
(***************************************************************************)
MantissaBits == 10
\* 1.0, three binades above the largest subnormal.
FloatOne == 2 ^ (MantissaBits + 3)
RECURSIVE BitLen(_)
BitLen(k) == IF k = 0 THEN 0 ELSE 1 + BitLen(k \div 2)
\* The distance between the floats around k.
Spacing(k) ==
    IF BitLen(k) > MantissaBits THEN 2 ^ (BitLen(k) - MantissaBits) ELSE 1
\* a / d rounded to the nearest integer, ties to the even one.
RoundDiv(a, d) ==
    LET q == a \div d
        r == a % d
    IN  IF 2 * r > d \/ (2 * r = d /\ q % 2 = 1) THEN q + 1 ELSE q
\* The float nearest to a / n.
float_div(a, n) ==
    LET s == Spacing(a \div n)
    IN  RoundDiv(a, n * s) * s
\* The float nearest to a + b.
float_add(a, b) == float_div(a + b, 1)

\* res += a[i] for the elements from i on.
RECURSIVE sum_in_order(_, _, _)
sum_in_order(res, a, i) ==
    IF i > Len(a) THEN res
    ELSE sum_in_order(float_add(res, a[i]), a, i + 1)
\* One of the eight accumulators of the unrolled loop: res += a[i] for
\* i, i + 8, ... up to last.
RECURSIVE lane_sum(_, _, _, _)
lane_sum(res, a, i, last) ==
    IF i > last THEN res
    ELSE lane_sum(float_add(res, a[i]), a, i + 8, last)
\* NumPy's pairwise summation of a contiguous array: fewer than 8 elements
\* are added in order; up to 128 elements go through eight accumulators that
\* are then added in pairs, the leftover elements in order; longer arrays
\* are split in two (at a multiple of 8) and the halves added.
RECURSIVE pairwise_sum(_)
pairwise_sum(a) ==
    LET n == Len(a)
    IN  IF n < 8 THEN sum_in_order(0, a, 1)
        ELSE IF n <= 128
        THEN LET full == n - (n % 8)
                 r == [j \in 1..8 |-> lane_sum(a[j], a, j + 8, full)]
                 res == float_add(
                            float_add(float_add(r[1], r[2]), float_add(r[3], r[4])),
                            float_add(float_add(r[5], r[6]), float_add(r[7], r[8])))
             IN  sum_in_order(res, a, full + 1)
        ELSE LET half == n \div 2
                 n2 == half - (half % 8)
             IN  float_add(pairwise_sum(SubSeq(a, 1, n2)),
                           pairwise_sum(SubSeq(a, n2 + 1, n)))
\* How the reduction starts depends on the NumPy build: from the identity 0
\* ("identity"), or from the first element, the rest being summed pairwise
\* ("first").
ReductionStarts == {"identity", "first"}
\* a.mean(): the sum of the elements divided by their number.
float_mean(a, start) ==
    LET total == IF start = "first"
                 THEN float_add(a[1], pairwise_sum(Tail(a)))
                 ELSE pairwise_sum(a)
    IN  float_div(total, Len(a))
\* region_mask[region]: the values of the mask over the region, row by row.
region_values(mask, region) ==
    LET cells == SelectSeq([i \in 1..(TargetSize * TargetSize) |-> CellAt(i)],
                           LAMBDA p : p \in region)
    IN  [k \in 1..Len(cells) |-> mask.num[cells[k]]]
\* The Finding of component i of a mask of floats (den = FloatOne): its
\* confidence is the float the mean is computed to, [sum |-> k, area |-> 1].
finding_of_float(mask, region, i, start) ==
    [finding_of(mask, region, i) EXCEPT
        !.confidence = [sum |-> float_mean(region_values(mask, region), start),
                        area |-> 1, den |-> mask.den]]
\* extract_findings_from_mask on a mask of floats.
extract_findings_from_mask_float(mask, threshold, start) ==
    LET binary == Force([r \in Idx, c \in Idx |->
                            mask_above(mask.num[r, c], mask.den, threshold)])
        labeled == label(binary)
    IN  sort_findings(<<>>, [i \in 1..Len(labeled) |->
                                finding_of_float(mask, labeled[i], i, start)])

(***************************************************************************)
(* model.py                                                                *)
(***************************************************************************)
None == 0
\* load_model: None without PyTorch, without the weights file, or when
\* loading fails; else the model object (named by `id`).
load_model(torch, weights_exist, load_ok, id) ==
    IF ~torch THEN None
    ELSE IF ~weights_exist THEN None
    ELSE IF load_ok THEN id
    ELSE None
\* predict_with_model raises "Model not available" (line 140-141)
predict_unavailable(torch, model) == ~torch \/ model = None

(***************************************************************************)
(* detector.py: run_detection                                              *)
(***************************************************************************)
\* threshold=max(0.1, 0.5 - sensitivity * 0.4), as a fraction
extraction_threshold(sens) ==
    [num |-> Max(SensDen, 5 * SensDen - 4 * sens), den |-> 10 * SensDen]
\* alpha_scale=0.7
AlphaScale == [num |-> 7, den |-> 10]
\* A choice of detector that ignores the analysis mode.
use_model_any_mode(model, analysis_type) == model /= None
\* line 152
use_model(model, analysis_type) == model /= None /\ analysis_type = "segmentation"

(***************************************************************************)
(* Inputs.                                                                 *)
(***************************************************************************)
\* Raw frames: constant images, tissue with a background border or cut
\* corners, hyper- and hypointense blobs, 8-bit and 12-bit ranges.
FrameZero == ConstGrid(0)
FrameConst == ConstGrid(7)
FrameFlatTissue == Frame(0, 128, 0, 4, <<>>)
FrameSmallTissue == Frame(0, 128, 2, 0, <<>>)
FrameHyperSmall == Frame(0, 128, 0, 4, <<Diamond(8, 8, 2, 255)>>)
FrameHyperLarge == Frame(0, 2048, 0, 4, <<Rect(5, 5, 6, 6, 4095)>>)
FrameHypo == Frame(0, 200, 0, 4, <<Diamond(9, 8, 2, 30)>>)
FrameTwoBlobs == Frame(0, 128, 0, 4, <<Rect(4, 4, 6, 6, 255), Diamond(11, 11, 2, 26)>>)
\* A small bright region met first and a larger one far from it: after the
\* clean-up they are two components of 13 and 18 pixels.
FrameSmallAndLarge ==
    Frame(0, 128, 0, 4, <<Diamond(6, 6, 2, 255), Diamond(12, 11, 2, 255),
                          Diamond(12, 12, 2, 255)>>)
RawFrames ==
    {FrameZero, FrameConst, FrameFlatTissue, FrameSmallTissue, FrameHyperSmall,
     FrameHyperLarge, FrameHypo, FrameTwoBlobs, FrameSmallAndLarge}
\* 2-D arrays, multi-frame 3-D arrays, and arrays that are neither.
PixelArrays ==
    {[ndim |-> 2, frames |-> <<f>>] : f \in RawFrames}
    \cup {[ndim |-> 3, frames |-> <<FrameHyperSmall, FrameZero>>],
          [ndim |-> 1, frames |-> <<>>],
          [ndim |-> 4, frames |-> <<FrameHyperSmall, FrameHypo>>]}
Sensitivities == 0..SensDen
AnalysisTypes == {"anomaly", "segmentation", "other"}

\* Regions of every severity tier: peak 0.9 over 121 pixels, peak 0.5 over
\* 48 pixels, peak 0.6 over 4 pixels.
SeverityMaskTiers ==
    [num |-> Frame(0, 0, 0, 0, <<Diamond(6, 6, 1, 9), Rect(1, 1, 11, 11, 7),
                                  Rect(13, 1, 4, 12, 5), Rect(1, 13, 2, 2, 6)>>),
     den |-> 10]
\* Regions on the edges of the tiers: peak 0.9 over exactly 100 pixels, peak
\* 0.5 over exactly 50 and over 51 pixels, peak exactly 0.8 over 4 pixels.
SeverityMaskEdges ==
    [num |-> Frame(0, 0, 0, 0, <<Rect(1, 1, 10, 10, 9), Rect(13, 1, 5, 10, 5),
                                  Rect(1, 13, 17, 3, 5), Rect(1, 17, 2, 1, 8)>>),
     den |-> 10]

\* Masks a learned predictor may return (tenths): equal regions, a weaker
\* region met before two equal stronger ones, regions on the image border,
\* a large region with a peak inside.
ModelMasks ==
    {[num |-> Frame(0, 0, 0, 0, <<Rect(2, 2, 3, 3, 8), Rect(10, 10, 3, 3, 8)>>), den |-> 10],
     [num |-> Frame(1, 1, 0, 0, <<Rect(2, 2, 2, 2, 6), Rect(6, 9, 2, 3, 9),
                                   Rect(12, 3, 3, 2, 9)>>), den |-> 10],
     [num |-> Frame(0, 0, 0, 0, <<Rect(1, 1, 1, TargetSize, 7),
                                   Rect(5, TargetSize, 4, 1, 7),
                                   Rect(TargetSize, 1, 1, 1, 10)>>), den |-> 10],
     [num |-> Frame(0, 0, 0, 0, <<Diamond(8, 8, 1, 9), Rect(3, 3, 11, 11, 4)>>), den |-> 10],
     SeverityMaskTiers, SeverityMaskEdges}

\* The image run_detection_on_synthetic generates (lines 201-225), scaled
\* down: tissue of intensity 0.5 on a zero background, a brighter inner
\* region (+0.15, white matter) and inside it a bright anomaly (+0.35, clipped
\* to 1.0).  The smooth pseudo-random texture (amplitude 0.05) is left out.
SyntheticImage ==
    Frame(0, 128, 0, 4, <<Diamond(7, 10, 2, 255), Rect(6, 6, 6, 6, 166)>>)

\* Floats in [0.5, 1): neighbours in the float format, j steps above 0.5.
FloatValue(j) == (2 ^ (MantissaBits - 1) + j) * 8
\* Masks of floats in [0, 1]: a region of six equal values; that region
\* beside a region of three different values; a row as wide as the mask and
\* a single pixel of value 1.
FloatMasks ==
    UNION {{[num |-> Frame(0, 0, 0, 0, <<Rect(3, 3, 2, 3, FloatValue(j))>>),
             den |-> FloatOne],
            [num |-> Frame(0, 0, 0, 0, <<Rect(3, 3, 2, 3, FloatValue(j)),
                                          Rect(10, 5, 1, 2, FloatOne),
                                          Rect(9, 4, 3, 4, FloatValue(j) \div 2),
                                          Rect(8, 3, 5, 6, FloatValue(j) \div 4)>>),
             den |-> FloatOne],
            [num |-> Frame(0, 0, 0, 0, <<Rect(1, 1, 1, TargetSize, FloatValue(j)),
                                          Rect(TargetSize, TargetSize, 1, 1, FloatOne)>>),
             den |-> FloatOne]} : j \in 0..15}
\* Thresholds: below 0, 0, 0.25, two of the values the masks hold, 1.
FloatThresholds ==
    {[num |-> k, den |-> FloatOne] :
        k \in {0 - (FloatOne \div 8), 0, FloatOne \div 4, FloatValue(1), FloatValue(5),
               FloatOne}}

\* Fewer than 100 tissue pixels after the erosion, with a bright region
\* inside the tissue.
FrameTissueBlob ==
    Frame(0, 128, 1, 0, <<Diamond(8, 7, 2, 255), Diamond(8, 8, 2, 255),
                          Diamond(8, 9, 2, 255)>>)
\* Normalized grids handed to the detector directly (bytes k, meaning k/255).
NormalizedGrids ==
    {ConstGrid(0), ConstGrid(128), ConstGrid(255),
     Frame(128, 128, 0, 0, <<Diamond(8, 8, 2, 255)>>),
     Frame(100, 100, 0, 0, <<Rect(5, 5, 6, 6, 180)>>),
     Frame(200, 200, 0, 0, <<Diamond(9, 8, 2, 40)>>),
     Frame(20, 128, 3, 0, <<>>),
     FrameTissueBlob,
     Frame(128, 128, 0, 0, <<Rect(4, 4, 6, 6, 255), Diamond(11, 11, 2, 26)>>)}
    \cup {preprocess_for_detection([ndim |-> 2, frames |-> <<f>>]) : f \in RawFrames}

(***************************************************************************)
(* State.                                                                  *)
(***************************************************************************)
VARIABLES
    _torch_available,   \* model.py:20-27, fixed when the module is imported
    _model,             \* detector.py:28
    _model_loaded,      \* detector.py:29
    load_calls,         \* number of load_model executions so far
    pc,                 \* position of the running call
    caller,             \* who called the detector: "run_detection",
                        \* "synthetic" (run_detection_on_synthetic) or "direct";
                        \* "extract" for extract_findings_from_mask on its own
    pixel_array, sensitivity, analysis_type,   \* arguments of run_detection
    preprocessed,       \* run_detection: preprocessed (the detector's image)
    model,              \* run_detection: model
    predictor_raised,   \* predict_with_model raised in this call
    brain_mask, tissue, anomaly_binary,        \* locals of the detector
    labeled,            \* detector.py:100, the components of the cleaned mask
    min_size,           \* detector.py:101, 0 until it is computed
    mask, findings, overlay, summary,          \* locals of run_detection
    threshold,          \* the threshold handed to extract_findings_from_mask
    result,             \* what the call returned or raised
    trace,              \* the stages the call has executed, in order
    tpc, tmodel, tret,  \* threads calling _get_model: position, the value
                        \* load_model returned, the handle returned
    _client,            \* pacs_client.py:13, None or the shared client
    clients,            \* every AsyncClient created so far: "open" or "closed"
    cpc, cclient        \* coroutines using the PACS client: position, the
                        \* client a coroutine holds (the one get_client
                        \* returned, or the one whose aclose it awaits)

shared == <<_torch_available, _model, _model_loaded, load_calls>>
args == <<pixel_array, sensitivity, analysis_type>>
dlocals == <<brain_mask, tissue, anomaly_binary, labeled, min_size>>
rlocals == <<preprocessed, model, predictor_raised, mask, findings, overlay, summary,
              threshold>>
threads == <<tpc, tmodel, tret>>
pacs == <<_client, clients, cpc, cclient>>
vars == <<shared, pc, caller, args, dlocals, rlocals, result, trace, threads, pacs>>

Threads == 1..NThreads
Tasks == 1..NTasks
NoStats == [n |-> 0, sum |-> 0, sumsq |-> 0]
NoArray == [ndim |-> 0, frames |-> <<>>]
NoResult == [status |-> "none"]

InitLocals ==
    /\ preprocessed = NoGrid /\ model = None /\ predictor_raised = FALSE
    /\ brain_mask = NoGrid /\ tissue = NoStats /\ anomaly_binary = NoGrid
    /\ labeled = <<>> /\ min_size = 0
    /\ mask = NoGrid /\ findings = <<>> /\ overlay = NoGrid /\ threshold = NoGrid
    /\ summary = NoResult /\ result = NoResult /\ trace = <<>>
InitShared ==
    /\ _torch_available \in BOOLEAN
    /\ _model = None /\ _model_loaded = FALSE /\ load_calls = 0
InitThreads ==
    /\ tpc = [t \in Threads |-> "idle"]
    /\ tmodel = [t \in Threads |-> None]
    /\ tret = [t \in Threads |-> None]
InitPacs ==
    /\ _client = None /\ clients = <<>>
    /\ cpc = [t \in Tasks |-> "idle"]
    /\ cclient = [t \in Tasks |-> None]

\* The service after start-up: no request yet.
Init ==
    /\ InitShared /\ InitLocals /\ InitThreads /\ InitPacs
    /\ pc = "idle" /\ caller = "run_detection"
    /\ pixel_array = NoArray
    /\ sensitivity = 0 /\ analysis_type = "anomaly"

(***************************************************************************)
(* run_detection, one request after another (the endpoint is a coroutine   *)
(* that calls run_detection without awaiting: requests do not interleave). *)
(***************************************************************************)
Request(pa, s, at) ==
    /\ pc = "idle"
    /\ pixel_array' = pa /\ sensitivity' = s /\ analysis_type' = at
    /\ pc' = "preprocess" /\ caller' = "run_detection"
    /\ preprocessed' = NoGrid /\ model' = None /\ predictor_raised' = FALSE
    /\ brain_mask' = NoGrid /\ tissue' = NoStats /\ anomaly_binary' = NoGrid
    /\ labeled' = <<>> /\ min_size' = 0
    /\ mask' = NoGrid /\ findings' = <<>> /\ overlay' = NoGrid /\ threshold' = NoGrid
    /\ summary' = NoResult /\ result' = NoResult /\ trace' = <<>>
    /\ UNCHANGED <<shared, threads, pacs>>

\* detect_anomalies_image_processing(image, s) called on its own.
DirectCall(image, s) ==
    /\ pc = "idle"
    /\ pixel_array' = NoArray /\ sensitivity' = s /\ analysis_type' = "anomaly"
    /\ pc' = "detect_tissue" /\ caller' = "direct"
    /\ preprocessed' = image /\ model' = None /\ predictor_raised' = FALSE
    /\ brain_mask' = NoGrid /\ tissue' = NoStats /\ anomaly_binary' = NoGrid
    /\ labeled' = <<>> /\ min_size' = 0
    /\ mask' = NoGrid /\ findings' = <<>> /\ overlay' = NoGrid /\ threshold' = NoGrid
    /\ summary' = NoResult /\ result' = NoResult /\ trace' = <<>>
    /\ UNCHANGED <<shared, threads, pacs>>

\* run_detection_on_synthetic(sensitivity, analysis_type), lines 190-228:
\* the image is generated and handed to detect_anomalies_image_processing;
\* lines 230-252 are the steps Extract, Heatmap, Summary and Return below.
SyntheticRequest(s, at) ==
    /\ pc = "idle"
    /\ pixel_array' = NoArray /\ sensitivity' = s /\ analysis_type' = at
    /\ pc' = "detect_tissue" /\ caller' = "synthetic"
    /\ preprocessed' = SyntheticImage /\ model' = None /\ predictor_raised' = FALSE
    /\ brain_mask' = NoGrid /\ tissue' = NoStats /\ anomaly_binary' = NoGrid
    /\ labeled' = <<>> /\ min_size' = 0
    /\ mask' = NoGrid /\ findings' = <<>> /\ overlay' = NoGrid /\ threshold' = NoGrid
    /\ summary' = NoResult /\ result' = NoResult /\ trace' = <<>>
    /\ UNCHANGED <<shared, threads, pacs>>

\* line 148; a ValueError leaves run_detection
PreprocessRaise ==
    /\ pc = "preprocess"
    /\ preprocess_raises(pixel_array)
    /\ result' = [status |-> "raised", exception |-> "ValueError"]
    /\ pc' = "done"
    /\ trace' = Append(trace, "preprocess")
    /\ UNCHANGED <<shared, caller, args, dlocals, rlocals, threads, pacs>>
Preprocess ==
    /\ pc = "preprocess"
    /\ ~preprocess_raises(pixel_array)
    /\ preprocessed' = preprocess_for_detection(pixel_array)
    /\ pc' = "get_model"
    /\ trace' = Append(trace, "preprocess")
    /\ UNCHANGED <<shared, caller, args, dlocals, model, predictor_raised, mask,
                   findings, overlay, summary, threshold,
                   result, threads, pacs>>

\* lines 151-152: _get_model() (lines 35-38), then the choice of detector
GetModelLoad(weights_exist, load_ok) ==
    /\ pc = "get_model"
    /\ ~_model_loaded
    /\ _model' = load_model(_torch_available, weights_exist, load_ok, load_calls + 1)
    /\ _model_loaded' = TRUE
    /\ load_calls' = load_calls + 1
    /\ model' = _model'
    /\ pc' = IF use_model(_model', analysis_type) THEN "predict" ELSE "detect_tissue"
    /\ trace' = Append(trace, "get_model")
    /\ UNCHANGED <<_torch_available, caller, args, dlocals, preprocessed,
                   predictor_raised, mask, findings, overlay, summary, threshold,
                   result, threads, pacs>>
\* A _get_model that calls load_model again although the flag is set.
GetModelCached_reload ==
    /\ pc = "get_model"
    /\ _model_loaded
    /\ _model' = load_model(_torch_available, TRUE, TRUE, load_calls + 1)
    /\ load_calls' = load_calls + 1
    /\ model' = _model'
    /\ pc' = IF use_model(_model', analysis_type) THEN "predict" ELSE "detect_tissue"
    /\ trace' = Append(trace, "get_model")
    /\ UNCHANGED <<_torch_available, _model_loaded, caller, args, dlocals, preprocessed,
                   predictor_raised, mask, findings, overlay, summary, threshold,
                   result, threads, pacs>>
GetModelCached ==
    /\ pc = "get_model"
    /\ _model_loaded
    /\ model' = _model
    /\ pc' = IF use_model(_model, analysis_type) THEN "predict" ELSE "detect_tissue"
    /\ trace' = Append(trace, "get_model")
    /\ UNCHANGED <<shared, caller, args, dlocals, preprocessed,
                   predictor_raised, mask, findings, overlay, summary, threshold,
                   result, threads, pacs>>

\* lines 153-155: the predictor returns a mask
Predict(m) ==
    /\ pc = "predict"
    /\ ~predict_unavailable(_torch_available, model)
    /\ mask' = m
    /\ pc' = "extract"
    /\ trace' = Append(trace, "predict")
    /\ UNCHANGED <<shared, caller, args, dlocals, preprocessed, model,
                   predictor_raised, findings, overlay, summary, threshold,
                   result, threads, pacs>>
\* The predictor raises and nothing catches it: the exception leaves
\* run_detection.
PredictRaise_uncaught ==
    /\ pc = "predict"
    /\ predictor_raised' = TRUE
    /\ result' = [status |-> "raised", exception |-> "Exception"]
    /\ pc' = "done"
    /\ trace' = Append(trace, "predict")
    /\ UNCHANGED <<shared, caller, args, dlocals, preprocessed, model,
                   mask, findings, overlay, summary, threshold, threads, pacs>>
\* The predictor raises and is called again.
PredictRaise_retry ==
    /\ pc = "predict"
    /\ predictor_raised' = TRUE
    /\ pc' = "predict"
    /\ trace' = Append(trace, "predict")
    /\ UNCHANGED <<shared, caller, args, dlocals, preprocessed, model,
                   mask, findings, overlay, summary, threshold,
                   result, threads, pacs>>
\* lines 153-158: the predictor raises an Exception, which is caught
PredictRaise ==
    /\ pc = "predict"
    /\ predictor_raised' = TRUE
    /\ pc' = "detect_tissue"
    /\ trace' = Append(trace, "predict")
    /\ UNCHANGED <<shared, caller, args, dlocals, preprocessed, model,
                   mask, findings, overlay, summary, threshold,
                   result, threads, pacs>>

(***************************************************************************)
(* detect_anomalies_image_processing(preprocessed, sensitivity), in three  *)
(* stages.                                                                 *)
(***************************************************************************)
AfterDetect == IF caller = "direct" THEN "done" ELSE "extract"

\* lines 57-69: not enough tissue, an all-zero mask is returned
DetectInsufficientTissue ==
    /\ pc = "detect_tissue"
    /\ brain_mask' = brain_mask_of(preprocessed)
    /\ insufficient_tissue(brain_mask')
    /\ mask' = ZeroMask
    /\ pc' = AfterDetect
    /\ trace' = Append(trace, "detect")
    /\ UNCHANGED <<shared, caller, args, tissue, anomaly_binary, labeled, min_size, preprocessed,
                   model, predictor_raised, findings, overlay, summary, threshold,
                   result, threads, pacs>>
\* lines 57-77: no variance in the tissue, an all-zero mask is returned
DetectZeroVariance ==
    /\ pc = "detect_tissue"
    /\ brain_mask' = brain_mask_of(preprocessed)
    /\ ~insufficient_tissue(brain_mask')
    /\ tissue' = tissue_stats(preprocessed, brain_mask')
    /\ std_below_eps(tissue')
    /\ mask' = ZeroMask
    /\ pc' = AfterDetect
    /\ trace' = Append(trace, "detect")
    /\ UNCHANGED <<shared, caller, args, anomaly_binary, labeled, min_size,
                   preprocessed,
                   model, predictor_raised, findings, overlay, summary, threshold,
                   result, threads, pacs>>
\* lines 57-77: the tissue mask and its statistics
DetectTissue ==
    /\ pc = "detect_tissue"
    /\ brain_mask' = brain_mask_of(preprocessed)
    /\ ~insufficient_tissue(brain_mask')
    /\ tissue' = tissue_stats(preprocessed, brain_mask')
    /\ ~std_below_eps(tissue')
    /\ pc' = "detect_anomaly"
    /\ trace' = Append(trace, "detect")
    /\ UNCHANGED <<shared, caller, args, anomaly_binary, labeled, min_size,
                   preprocessed,
                   model, predictor_raised, mask, findings, overlay, summary, threshold,
                   result, threads, pacs>>
\* lines 79-104: thresholding, morphological clean-up, pruning
DetectAnomaly ==
    /\ pc = "detect_anomaly"
    /\ min_size' = min_size_of(sensitivity)
    /\ LET cleaned == cleaned_of(preprocessed, brain_mask, tissue, sensitivity)
       IN  /\ labeled' = label(cleaned)
           /\ anomaly_binary' = prune_components(cleaned, labeled', 1, min_size')
    /\ pc' = "detect_probability"
    /\ UNCHANGED <<shared, caller, args, brain_mask, tissue, rlocals,
                   result, trace, threads, pacs>>
\* lines 106-127: the probability mask
DetectProbability ==
    /\ pc = "detect_probability"
    /\ mask' = probability_of(preprocessed, brain_mask, tissue, anomaly_binary)
    /\ pc' = AfterDetect
    /\ UNCHANGED <<shared, caller, args, dlocals, preprocessed, model,
                   predictor_raised, findings, overlay, summary, threshold,
                   result, trace, threads, pacs>>

(***************************************************************************)
(* run_detection, lines 162-187.                                           *)
(***************************************************************************)
Extract ==
    /\ pc = "extract"
    /\ threshold' = extraction_threshold(sensitivity)
    /\ findings' = extract_findings_from_mask(mask, threshold')
    /\ pc' = "heatmap"
    /\ trace' = Append(trace, "extract")
    /\ UNCHANGED <<shared, caller, args, dlocals, preprocessed, model,
                   predictor_raised, mask, overlay, summary, result, threads, pacs>>
Heatmap ==
    /\ pc = "heatmap"
    /\ overlay' = mask_to_heatmap_png(mask, AlphaScale)
    /\ pc' = "summary"
    /\ trace' = Append(trace, "heatmap")
    /\ UNCHANGED <<shared, caller, args, dlocals, preprocessed, model,
                   predictor_raised, mask, findings, summary, threshold, result, threads, pacs>>
Summary ==
    /\ pc = "summary"
    /\ summary' = generate_summary(findings)
    /\ pc' = "return"
    /\ trace' = Append(trace, "summary")
    /\ UNCHANGED <<shared, caller, args, dlocals, preprocessed, model,
                   predictor_raised, mask, findings, overlay, threshold, result, threads, pacs>>
\* lines 174-187; processing_time_ms (wall-clock time) is left out
Return ==
    /\ pc = "return"
    /\ result' = [status |-> "completed",
                  analysis_type |-> analysis_type,
                  findings |-> [i \in 1..Len(findings) |-> to_dict(findings[i])],
                  overlay |-> [type |-> "heatmap", data |-> overlay, colormap |-> "jet"],
                  summary |-> summary]
    /\ pc' = "done"
    /\ UNCHANGED <<shared, caller, args, dlocals, rlocals, trace, threads, pacs>>

\* The call is over: its result (or exception) has gone to the caller
\* (routers/ai.py:59, 74, 76-78) and its arguments and locals are gone; the
\* module-level handle stays.
Respond ==
    /\ pc = "done"
    /\ pc' = "idle" /\ caller' = "run_detection"
    /\ pixel_array' = NoArray /\ sensitivity' = 0 /\ analysis_type' = "anomaly"
    /\ preprocessed' = NoGrid /\ model' = None /\ predictor_raised' = FALSE
    /\ brain_mask' = NoGrid /\ tissue' = NoStats /\ anomaly_binary' = NoGrid
    /\ labeled' = <<>> /\ min_size' = 0
    /\ mask' = NoGrid /\ findings' = <<>> /\ overlay' = NoGrid /\ threshold' = NoGrid
    /\ summary' = NoResult /\ result' = NoResult /\ trace' = <<>>
    /\ UNCHANGED <<shared, threads, pacs>>

Next ==
    \/ \E pa \in PixelArrays, s \in Sensitivities, at \in AnalysisTypes : Request(pa, s, at)
    \/ \E image \in NormalizedGrids, s \in Sensitivities : DirectCall(image, s)
    \/ \E s \in Sensitivities, at \in AnalysisTypes : SyntheticRequest(s, at)
    \/ PreprocessRaise
    \/ Preprocess
    \/ \E weights_exist \in BOOLEAN, load_ok \in BOOLEAN : GetModelLoad(weights_exist, load_ok)
    \/ GetModelCached
    \/ \E m \in ModelMasks : Predict(m)
    \/ PredictRaise
    \/ DetectInsufficientTissue
    \/ DetectZeroVariance
    \/ DetectTissue
    \/ DetectAnomaly
    \/ DetectProbability
    \/ Extract
    \/ Heatmap
    \/ Summary
    \/ Return
    \/ Respond

Spec == Init /\ [][Next]_vars

(***************************************************************************)
(* _get_model (detector.py:32-38) called by several threads at once.  The  *)
(* function takes no lock, so the threads interleave between its           *)
(* statements: the test of _model_loaded, the call of load_model, the      *)
(* assignment to _model, the assignment to _model_loaded, the return.      *)
(***************************************************************************)
pipeline == <<pc, caller, args, dlocals, rlocals, result, trace>>

get_model_call(t) ==
    /\ tpc[t] = "idle"
    /\ tpc' = [tpc EXCEPT ![t] = "test"]
    /\ UNCHANGED <<shared, pipeline, pacs, tmodel, tret>>
\* line 35: if not _model_loaded
get_model_test(t) ==
    /\ tpc[t] = "test"
    /\ tpc' = [tpc EXCEPT ![t] = IF _model_loaded THEN "return" ELSE "load"]
    /\ UNCHANGED <<shared, pipeline, pacs, tmodel, tret>>
\* line 36, right-hand side: load_model()
get_model_load(t, weights_exist, load_ok) ==
    /\ tpc[t] = "load"
    /\ load_calls' = load_calls + 1
    /\ tmodel' = [tmodel EXCEPT ![t] =
                     load_model(_torch_available, weights_exist, load_ok, load_calls + 1)]
    /\ tpc' = [tpc EXCEPT ![t] = "store"]
    /\ UNCHANGED <<_torch_available, _model, _model_loaded, pipeline, pacs, tret>>
\* line 36, the assignment: _model = ...
get_model_store(t) ==
    /\ tpc[t] = "store"
    /\ _model' = tmodel[t]
    /\ tpc' = [tpc EXCEPT ![t] = "flag"]
    /\ UNCHANGED <<_torch_available, _model_loaded, load_calls, pipeline, pacs, tmodel, tret>>
\* line 37: _model_loaded = True
get_model_flag(t) ==
    /\ tpc[t] = "flag"
    /\ _model_loaded' = TRUE
    /\ tpc' = [tpc EXCEPT ![t] = "return"]
    /\ UNCHANGED <<_torch_available, _model, load_calls, pipeline, pacs, tmodel, tret>>
\* line 38: return _model
get_model_return(t) ==
    /\ tpc[t] = "return"
    /\ tret' = [tret EXCEPT ![t] = _model]
    /\ tpc' = [tpc EXCEPT ![t] = "done"]
    /\ UNCHANGED <<shared, pipeline, pacs, tmodel>>

NextGetModel ==
    \/ \E t \in Threads : get_model_call(t)
    \/ \E t \in Threads : get_model_test(t)
    \/ \E t \in Threads, weights_exist \in BOOLEAN, load_ok \in BOOLEAN :
           get_model_load(t, weights_exist, load_ok)
    \/ \E t \in Threads : get_model_store(t)
    \/ \E t \in Threads : get_model_flag(t)
    \/ \E t \in Threads : get_model_return(t)

SpecGetModel == Init /\ [][NextGetModel]_vars

(***************************************************************************)
(* extract_findings_from_mask called on its own with a mask of floats and  *)
(* any threshold, the confidence being computed in floating point.         *)
(***************************************************************************)
DirectExtract(m, t, start) ==
    /\ pc = "idle"
    /\ pixel_array' = NoArray /\ sensitivity' = 0 /\ analysis_type' = "anomaly"
    /\ pc' = "done" /\ caller' = "extract"
    /\ preprocessed' = NoGrid /\ model' = None /\ predictor_raised' = FALSE
    /\ brain_mask' = NoGrid /\ tissue' = NoStats /\ anomaly_binary' = NoGrid
    /\ labeled' = <<>> /\ min_size' = 0
    /\ mask' = m /\ threshold' = t
    /\ findings' = extract_findings_from_mask_float(m, t, start)
    /\ overlay' = NoGrid /\ summary' = NoResult /\ result' = NoResult
    /\ trace' = <<"extract">>
    /\ UNCHANGED <<shared, threads, pacs>>

NextFloat ==
    \/ \E m \in FloatMasks, t \in FloatThresholds, start \in ReductionStarts :
          DirectExtract(m, t, start)
    \/ Respond

SpecFloat == Init /\ [][NextFloat]_vars

(***************************************************************************)
(* The shared PACS HTTP client (services/pacs_client.py:12-42).  The        *)
(* coroutines run on one event loop and give up control only at an await   *)
(* that suspends: get_client has none, so each call of it is one step;     *)
(* close_client suspends in `await _client.aclose()` and clears the handle *)
(* when it is resumed.  When aclose makes is_closed true, before it        *)
(* suspends or when it is done, is the library's business: both happen.    *)
(***************************************************************************)
IsClosed(c) == clients[c] = "closed"

\* pacs_client.py:16-34, called by a request handler.
get_client(t) ==
    /\ cpc[t] = "idle"
    /\ IF _client = None \/ IsClosed(_client)
       THEN /\ Len(clients) < MaxClients
            /\ clients' = Append(clients, "open")
            /\ _client' = Len(clients) + 1
       ELSE UNCHANGED <<_client, clients>>
    /\ cclient' = [cclient EXCEPT ![t] = _client']
    /\ cpc' = [cpc EXCEPT ![t] = "got"]
    /\ UNCHANGED <<shared, pipeline, threads>>

\* The handler is done with the client get_client gave it.
request_done(t) ==
    /\ cpc[t] = "got"
    /\ cpc' = [cpc EXCEPT ![t] = "idle"]
    /\ cclient' = [cclient EXCEPT ![t] = None]
    /\ UNCHANGED <<shared, pipeline, threads, _client, clients>>

\* pacs_client.py:40, the test fails: there is nothing to close.
close_client_skip(t) ==
    /\ cpc[t] = "idle"
    /\ IF _client = None THEN TRUE ELSE IsClosed(_client)
    /\ cpc' = [cpc EXCEPT ![t] = "closed"]
    /\ UNCHANGED <<shared, pipeline, threads, _client, clients, cclient>>

\* pacs_client.py:40-41, up to the suspension inside aclose.
close_client_aclose(t, closed_at_once) ==
    /\ cpc[t] = "idle"
    /\ _client /= None /\ ~IsClosed(_client)
    /\ cclient' = [cclient EXCEPT ![t] = _client]
    /\ clients' = IF closed_at_once THEN [clients EXCEPT ![_client] = "closed"]
                                    ELSE clients
    /\ cpc' = [cpc EXCEPT ![t] = "aclose"]
    /\ UNCHANGED <<shared, pipeline, threads, _client>>

\* pacs_client.py:41-42, aclose is done and the coroutine resumed.
close_client_clear(t) ==
    /\ cpc[t] = "aclose"
    /\ clients' = [clients EXCEPT ![cclient[t]] = "closed"]
    /\ _client' = None
    /\ cclient' = [cclient EXCEPT ![t] = None]
    /\ cpc' = [cpc EXCEPT ![t] = "closed"]
    /\ UNCHANGED <<shared, pipeline, threads>>

\* close_client has returned to its caller (main.py:28).
close_client_return(t) ==
    /\ cpc[t] = "closed"
    /\ cpc' = [cpc EXCEPT ![t] = "idle"]
    /\ UNCHANGED <<shared, pipeline, threads, _client, clients, cclient>>

NextClient ==
    \/ \E t \in Tasks : get_client(t)
    \/ \E t \in Tasks : request_done(t)
    \/ \E t \in Tasks : close_client_skip(t)
    \/ \E t \in Tasks, closed_at_once \in BOOLEAN :
           close_client_aclose(t, closed_at_once)
    \/ \E t \in Tasks : close_client_clear(t)
    \/ \E t \in Tasks : close_client_return(t)

SpecClient == Init /\ [][NextClient]_vars

(***************************************************************************)
(* Properties.                                                             *)
(***************************************************************************)
InTrace(stage) == \E i \in 1..Len(trace) : trace[i] = stage
\* The mask is the statistical detector's.
StatisticalMask == InTrace("detect") /\ mask /= NoGrid
\* The statistical detector has just returned its mask to its caller.
DetectorReturned ==
    /\ StatisticalMask
    /\ pc = (IF caller = "direct" THEN "done" ELSE "extract")
AllZero(m) == \A p \in DOMAIN m.num : m.num[p] = 0
IsConstant(g) == \E v \in {g[1, 1]} : \A p \in DOMAIN g : g[p] = v
InPipeline == caller = "run_detection" /\ trace /= <<>>

\* C1: when the alternate predictor is invoked in run_detection and raises,
\* the exception does not leave run_detection; the statistical detector
\* runs on the same preprocessed image with the request's sensitivity, its
\* mask is the one the findings, the overlay and the summary are made from,
\* and the call returns a result with status "completed".
C1_FallbackCompletes ==
    (InPipeline /\ predictor_raised) =>
        /\ InTrace("predict")
        /\ result.status /= "raised"
        /\ pc = "done" =>
              /\ result.status = "completed"
              /\ preprocessed = preprocess_for_detection(pixel_array)
              /\ mask = detect_anomalies_image_processing(preprocessed, sensitivity)
              /\ findings = extract_findings_from_mask(mask, extraction_threshold(sensitivity))
              /\ overlay = mask_to_heatmap_png(mask, AlphaScale)
              /\ summary = generate_summary(findings)
              /\ result.findings = [i \in 1..Len(findings) |-> to_dict(findings[i])]
              /\ result.overlay.data = overlay
              /\ result.summary = summary
\* A call in which the predictor raised has returned findings of the
\* statistical detector.
C1_Witness ==
    /\ InPipeline /\ predictor_raised /\ pc = "done"
    /\ result.status = "completed" /\ result.findings /= <<>>

\* C2: however concurrent first calls of _get_model interleave, load_model
\* is executed at most once, and once the handle is set no later call
\* changes it.
C2_LoadedOnceAndStable ==
    [][load_calls' <= 1 /\ (_model_loaded => _model' = _model)]_vars

\* C3: an input that is neither 2-D nor 3-D makes preprocess_for_detection
\* raise its ValueError, which leaves run_detection with no detector,
\* extraction, rendering or summary step executed; a 3-D input is reduced
\* to its first frame, and a 2-D or 3-D input does not raise.
C3_NotTwoDimensionalRaises ==
    InPipeline =>
        IF pixel_array.ndim \notin {2, 3}
        THEN /\ pc = "done"
             /\ result = [status |-> "raised", exception |-> "ValueError"]
             /\ trace = <<"preprocess">>
             /\ preprocessed = NoGrid /\ mask = NoGrid /\ findings = <<>>
             /\ overlay = NoGrid /\ summary = NoResult
        ELSE /\ result.status /= "raised"
             /\ pc = "get_model" =>
                   preprocessed =
                       resize_for_model(normalize_pixel_data(pixel_array.frames[1]))
C3_Witness ==
    /\ InPipeline /\ pixel_array.ndim = 4 /\ pc = "done"
    /\ result.status = "raised"

\* C4: in run_detection the alternate predictor is invoked exactly when the
\* analysis mode is "segmentation" and the model handle is not None; in
\* every other call the mask is the statistical detector's.
C4_PredictorIffSegmentationAndModel ==
    (InPipeline /\ InTrace("get_model")) =>
        /\ model = _model
        /\ (pc = "predict" \/ InTrace("predict"))
              <=> (analysis_type = "segmentation" /\ model /= None)
        /\ (pc = "extract" /\ ~InTrace("predict")) =>
              /\ InTrace("detect")
              /\ mask = detect_anomalies_image_processing(preprocessed, sensitivity)
C4_Witness ==
    /\ InPipeline /\ pc = "done" /\ InTrace("predict") /\ ~predictor_raised
    /\ analysis_type = "segmentation" /\ model /= None /\ mask \in ModelMasks

\* C5: on every return path the detector's mask has the shape of its input
\* and every value of it lies in [0, 1].
C5_MaskShapeAndRange ==
    DetectorReturned =>
        /\ DOMAIN mask.num = DOMAIN preprocessed
        /\ mask.den > 0
        /\ \A p \in DOMAIN mask.num : 0 <= mask.num[p] /\ mask.num[p] <= mask.den
\* The full pipeline has returned a mask with values strictly inside (0, 1)
\* and the values 0 and 1.
C5_Witness ==
    /\ DetectorReturned /\ caller = "direct" /\ pc = "done"
    /\ anomaly_binary /= NoGrid
    /\ \E p \in Cells : 0 < mask.num[p] /\ mask.num[p] < mask.den
    /\ \E p \in Cells : mask.num[p] = mask.den
    /\ \E p \in Cells : mask.num[p] = 0

\* C6: the detector returns the all-zero mask, and raises nothing, when the
\* tissue mask (intensity > 0.1, eroded 3 times) has fewer than 100 pixels
\* and when the standard deviation of the tissue is below 1e-6.
C6_DegenerateTissueZeroMask ==
    DetectorReturned =>
        LET brain == binary_erosion(tissue_threshold(preprocessed), ErosionIters)
            st == tissue_stats(preprocessed, brain)
        IN  (Cardinality(TrueCells(brain)) < MinTissue \/ std_below_eps(st)) =>
                mask = ZeroMask /\ result.status /= "raised"
\* Some tissue with a bright region in it, but fewer than 100 pixels.
C6_Witness ==
    /\ DetectorReturned /\ brain_mask /= NoGrid
    /\ Cardinality(TrueCells(brain_mask)) \in 1..(MinTissue - 1)
    /\ ~IsConstant(preprocessed)
    /\ mask = ZeroMask

\* C7: for a constant raw image and any sensitivity, normalization gives
\* the all-zero grid, and the statistical pipeline gives an all-zero mask
\* and no findings; a constant normalized grid handed to the detector
\* directly gives an all-zero mask too.
C7_ConstantImageNoFindings ==
    /\ (InPipeline /\ pixel_array.ndim \in {2, 3} /\ IsConstant(pixel_array.frames[1])) =>
          /\ preprocessed = ConstGrid(0)
          /\ StatisticalMask => AllZero(mask)
          /\ (StatisticalMask /\ InTrace("extract")) => findings = <<>>
    /\ (caller = "direct" /\ IsConstant(preprocessed) /\ DetectorReturned) =>
          AllZero(mask)
\* A request with a constant image that is not zero has completed.
C7_Witness ==
    /\ InPipeline /\ pc = "done" /\ result.status = "completed"
    /\ pixel_array.ndim = 2 /\ IsConstant(pixel_array.frames[1])
    /\ pixel_array.frames[1][1, 1] /= 0
    /\ StatisticalMask /\ result.findings = <<>>

\* C8: for an all-zero image and any sensitivity, the result of the
\* statistical pipeline has no findings, a summary with total_findings 0,
\* max_confidence 0.0 and the "no anomalies" recommendation, and an
\* overlay whose alpha channel is 0 at every pixel.
C8_ZeroImageEmptyResult ==
    (/\ InPipeline /\ pc = "done" /\ InTrace("detect")
     /\ pixel_array.ndim \in {2, 3}
     /\ pixel_array.frames[1] = ConstGrid(0)) =>
        /\ result.status = "completed"
        /\ result.findings = <<>>
        /\ result.summary.total_findings = 0
        /\ result.summary.max_confidence = 0
        /\ result.summary.recommendation = "No significant anomalies detected."
        /\ \A p \in Cells : result.overlay.data[p] = 0
C8_Witness ==
    /\ InPipeline /\ pc = "done" /\ InTrace("detect")
    /\ pixel_array.ndim = 2 /\ pixel_array.frames[1] = ConstGrid(0)
    /\ result.status = "completed" /\ sensitivity = SensDen

\* C9: the list extract_findings_from_mask returns is in non-increasing
\* order of confidence, and findings of equal confidence are in the order
\* of their component labels.
C9_SortedByConfidenceStable ==
    InTrace("extract") =>
        \A i \in 1..Len(findings) : \A j \in 1..Len(findings) :
            i < j =>
                /\ ~ConfLess(findings[i].confidence, findings[j].confidence)
                /\ ~ConfLess(findings[j].confidence, findings[i].confidence) =>
                      findings[i].label < findings[j].label
\* Three findings: the two stronger, equal ones first in the order of their
\* labels, the first component last.
C9_Witness ==
    /\ InTrace("extract") /\ Len(findings) = 3
    /\ findings[1].label = 2 /\ findings[2].label = 3 /\ findings[3].label = 1
    /\ ~ConfLess(findings[2].confidence, findings[1].confidence)
    /\ ConfLess(findings[3].confidence, findings[2].confidence)

\* C10: the bounding box of every finding is the tight rectangle of its
\* component (every cell of the component is inside, every side touches
\* one) and lies inside the mask: x >= 0, y >= 0, width >= 1, height >= 1,
\* x + width <= mask width, y + height <= mask height.
C10_BoundingBoxTightInside ==
    InTrace("extract") =>
        LET t == extraction_threshold(sensitivity)
            comps == label([p \in DOMAIN mask.num |->
                               mask_above(mask.num[p], mask.den, t)])
            mask_height == SetMax({p[1] : p \in DOMAIN mask.num})
            mask_width == SetMax({p[2] : p \in DOMAIN mask.num})
        IN  \A i \in 1..Len(findings) :
                LET f == findings[i]
                    region == comps[f.label]
                IN  /\ f.x >= 0 /\ f.y >= 0 /\ f.width >= 1 /\ f.height >= 1
                    /\ f.x + f.width <= mask_width
                    /\ f.y + f.height <= mask_height
                    /\ \A p \in region :
                          /\ f.y + 1 <= p[1] /\ p[1] <= f.y + f.height
                          /\ f.x + 1 <= p[2] /\ p[2] <= f.x + f.width
                    /\ \E p \in region : p[1] = f.y + 1
                    /\ \E p \in region : p[1] = f.y + f.height
                    /\ \E p \in region : p[2] = f.x + 1
                    /\ \E p \in region : p[2] = f.x + f.width
\* A finding as wide as the mask, and one of a single pixel.
C10_Witness ==
    /\ InTrace("extract")
    /\ \E i \in 1..Len(findings) :
          findings[i].x = 0 /\ findings[i].width = TargetSize
    /\ \E i \in 1..Len(findings) :
          findings[i].width = 1 /\ findings[i].height = 1

\* C11: every finding's severity is "high" exactly when the peak of the mask
\* over its component is above 0.8 and its area above 100 pixels, otherwise
\* "moderate" exactly when the peak is above 0.5 or the area above 50,
\* otherwise "low"; its description is the fixed text of its severity tier,
\* so findings of equal severity have equal descriptions.
C11_SeverityTiers ==
    InTrace("extract") =>
        LET t == extraction_threshold(sensitivity)
            comps == label([p \in DOMAIN mask.num |->
                               mask_above(mask.num[p], mask.den, t)])
        IN  \A i \in 1..Len(findings) :
                LET f == findings[i]
                    area == Cardinality(comps[f.label])
                    peak == SetMax({mask.num[p] : p \in comps[f.label]})
                    is_high == FracLess(8, 10, peak, mask.den) /\ area > 100
                    is_moderate ==
                        ~is_high /\ (FracLess(5, 10, peak, mask.den) \/ area > 50)
                IN  /\ f.severity \in {"high", "moderate", "low"}
                    /\ f.severity = "high" <=> is_high
                    /\ f.severity = "moderate" <=> is_moderate
                    /\ f.severity = "high" => f.description =
                          "Hyperintense region detected with significant deviation from normal tissue"
                    /\ f.severity = "moderate" => f.description =
                          "Hyperintense region detected"
                    /\ f.severity = "low" => f.description =
                          "Subtle intensity variation detected"
                    /\ \A j \in 1..Len(findings) :
                          findings[j].severity = f.severity =>
                              findings[j].description = f.description
\* One call has found a region of each tier.
C11_Witness ==
    /\ InTrace("extract")
    /\ \E i \in 1..Len(findings) : findings[i].severity = "high"
    /\ \E i \in 1..Len(findings) : findings[i].severity = "moderate"
    /\ \E i \in 1..Len(findings) : findings[i].severity = "low"

\* The summary of a non-empty findings list has been made.
Summarized == InTrace("summary") /\ findings /= <<>>
\* Finding i has the largest confidence of the list.
IsMaxConfidence(i) ==
    \A j \in 1..Len(findings) :
        ~ConfLess(findings[i].confidence, findings[j].confidence)
\* The recommendation by precedence: "high", else "moderate", else all "low".
RecommendationByPrecedence ==
    LET any(sev) == \E i \in 1..Len(findings) : findings[i].severity = sev
    IN  /\ any("high") => summary.recommendation =
              "Significant regions of interest detected. Urgent clinical review recommended."
        /\ (~any("high") /\ any("moderate")) => summary.recommendation =
              "Regions of interest detected. Clinical review recommended."
        /\ (~any("high") /\ ~any("moderate")) =>
              /\ \A i \in 1..Len(findings) : findings[i].severity = "low"
              /\ summary.recommendation =
                     "Minor variations detected. Routine follow-up may be sufficient."
\* The summary of every reordering of the findings is the same.
OrderIndependent ==
    \A perm \in Permutations(1..Len(findings)) :
        generate_summary([i \in 1..Len(findings) |-> findings[perm[i]]]) = summary

\* C12 as stated: for a non-empty findings list, total_findings is the
\* length of the list, max_confidence is the maximum confidence itself, the
\* recommendation follows the precedence high, moderate, low, and the
\* summary does not depend on the order of the findings.
C12_SummaryExactMaximum ==
    Summarized =>
        /\ summary.total_findings = Len(findings)
        /\ \E i \in 1..Len(findings) :
              LET c == findings[i].confidence
                  h == MulDiv(c.sum, 1000, c.den)
              IN  /\ IsMaxConfidence(i)
                  /\ h[2] = 0 /\ h[1] = summary.max_confidence * c.area
        /\ RecommendationByPrecedence
        /\ OrderIndependent
\* C12, amended: max_confidence is the maximum confidence rounded to three
\* decimals (it differs from the maximum by at most half a thousandth); the
\* rest as stated.
C12_SummaryRoundedMaximum ==
    Summarized =>
        /\ summary.total_findings = Len(findings)
        /\ \E i \in 1..Len(findings) :
              LET c == findings[i].confidence
                  h == MulDiv(c.sum, 2000, c.den)
                  lo == (2 * summary.max_confidence - 1) * c.area
                  hi == (2 * summary.max_confidence + 1) * c.area
              IN  /\ IsMaxConfidence(i)
                  /\ lo <= h[1]
                  /\ h[1] < hi \/ (h[1] = hi /\ h[2] = 0)
        /\ RecommendationByPrecedence
        /\ OrderIndependent
\* A summary of findings of all three tiers, the strongest of which is not
\* the first of a reordering and has a confidence that is no whole number
\* of thousandths.
C12_Witness ==
    /\ Summarized /\ Len(findings) >= 3
    /\ \E i \in 1..Len(findings) : findings[i].severity = "high"
    /\ \E i \in 1..Len(findings) : findings[i].severity = "moderate"
    /\ \E i \in 1..Len(findings) : findings[i].severity = "low"
    /\ LET c == findings[1].confidence
       IN  MulDiv(c.sum, 1000, c.den)[2] /= 0
              \/ MulDiv(c.sum, 1000, c.den)[1] % c.area /= 0

\* The pruning loop of the detector (lines 99-104) has just finished.
Pruned == pc = "detect_probability"
\* Component comp of the cleaned mask is gone from / whole in anomaly_binary.
Dropped(comp) == \A p \in comp : ~anomaly_binary[p]
Kept(comp) == \A p \in comp : anomaly_binary[p]
\* Every component of the cleaned mask is dropped exactly when it has fewer
\* than `least` pixels, and is kept whole otherwise.
DroppedBelow(least) ==
    \A i \in 1..Len(labeled) :
        IF Cardinality(labeled[i]) < least THEN Dropped(labeled[i]) ELSE Kept(labeled[i])

\* C13 as stated: the minimum component size of the pruning loop is
\* max(10, round(20 * sensitivity)), with 20 * sensitivity rounded to a
\* nearest integer, and a component is dropped exactly when it has fewer
\* pixels than that.
C13_MinSizeRounded ==
    Pruned =>
        \E r \in 0..MinSizeScale :
            /\ Abs(2 * SensDen * r - 2 * MinSizeScale * sensitivity) <= SensDen
            /\ min_size = Max(10, r)
            /\ DroppedBelow(Max(10, r))
\* C13, amended: the minimum component size is max(10, floor(20 *
\* sensitivity)), the fraction of 20 * sensitivity being cut off, and a
\* component is dropped exactly when it has fewer pixels than that.
C13_MinSizeTruncated ==
    Pruned =>
        \E r \in 0..MinSizeScale :
            /\ SensDen * r <= MinSizeScale * sensitivity
            /\ MinSizeScale * sensitivity < SensDen * (r + 1)
            /\ min_size = Max(10, r)
            /\ DroppedBelow(Max(10, r))
\* A sensitivity whose 20-fold has a fraction of at least one half and is
\* above 10; one component was dropped and one kept.
C13_Witness ==
    /\ Pruned
    /\ 2 * ((MinSizeScale * sensitivity) % SensDen) >= SensDen
    /\ MinSizeScale * sensitivity > 10 * SensDen
    /\ \E i \in 1..Len(labeled) : Dropped(labeled[i])
    /\ \E i \in 1..Len(labeled) : Kept(labeled[i])

\* C14: raising the sensitivity never makes detection stricter: for every
\* sensitivity s1 below the one of the call, the deviation threshold of the
\* call is at most the threshold at s1, and the minimum region size the
\* call pruned with is at most the minimum size at s1.
C14_MonotoneInSensitivity ==
    Pruned =>
        \A s1 \in Sensitivities :
            s1 <= sensitivity =>
                LET t1 == threshold_std(s1)
                    t2 == threshold_std(sensitivity)
                IN  /\ t2.num * t1.den <= t1.num * t2.den
                    /\ min_size <= min_size_of(s1)

\* Values of alpha_scale in its documented range 0-1 (postprocessing.py:88).
AlphaScales ==
    {[num |-> 0, den |-> 1], [num |-> 1, den |-> 4], AlphaScale, [num |-> 1, den |-> 1]}
\* The pairs <<mask value, alpha>> of the pixels for alpha_scale a: those of
\* the overlay of the call for the scale the call used.
AlphaPairs(a) ==
    IF a = AlphaScale THEN {<<mask.num[p], overlay[p]>> : p \in Cells}
    ELSE {<<v, alpha_of(v, mask.den, a)>> : v \in {mask.num[p] : p \in Cells}}

\* C15: for a fixed alpha_scale the alpha of a pixel is a non-decreasing
\* function of its mask value; it is mask value x alpha_scale x 255 with the
\* fraction cut off; mask value 0 gives alpha 0 and the highest mask value
\* the largest alpha.
C15_AlphaMonotoneTruncated ==
    (pc = "summary" /\ InTrace("heatmap")) =>
        \A a \in AlphaScales :
            LET pairs == AlphaPairs(a)
                top == GridMax(mask.num)
            IN  /\ \A v \in pairs : \A w \in pairs : v[1] <= w[1] => v[2] <= w[2]
                /\ \A v \in pairs :
                      /\ v[2] \in 0..MaxByte
                      /\ v[1] = 0 => v[2] = 0
                      /\ v[1] = top => \A w \in pairs : w[2] <= v[2]
                      /\ IF a.num = 0 THEN v[2] = 0
                         ELSE /\ ~FracLess(v[1], mask.den, v[2] * a.den, a.num * MaxByte)
                              /\ FracLess(v[1], mask.den, (v[2] + 1) * a.den, a.num * MaxByte)
\* An overlay with alpha 0, with the alpha of mask value 1 (178, cut off
\* from 178.5) and with alphas in between.
C15_Witness ==
    /\ pc = "summary" /\ InTrace("heatmap") /\ StatisticalMask
    /\ \E p \in Cells : mask.num[p] = 0 /\ overlay[p] = 0
    /\ \E p \in Cells : mask.num[p] = mask.den /\ overlay[p] = 178
    /\ Cardinality({overlay[p] : p \in Cells}) >= 5

\* C16: run_detection_on_synthetic executes the stages of run_detection on
\* its generated image: preprocessing, then the selection of the detector
\* (the alternate predictor when the mode is "segmentation" and a model is
\* loaded, with the fallback), then extraction, rendering and summary, and
\* it returns what that path returns.
C16_SyntheticSamePath ==
    (caller = "synthetic" /\ pc = "done") =>
        /\ InTrace("preprocess") /\ InTrace("get_model") /\ _model_loaded
        /\ use_model(_model, analysis_type) => InTrace("predict")
        /\ InTrace("extract") /\ InTrace("heatmap") /\ InTrace("summary")
        /\ ~InTrace("predict") =>
              LET image == preprocess_for_detection([ndim |-> 2, frames |-> <<preprocessed>>])
                  m == detect_anomalies_image_processing(image, sensitivity)
                  f == extract_findings_from_mask(m, extraction_threshold(sensitivity))
              IN  /\ result.findings = [i \in 1..Len(f) |-> to_dict(f[i])]
                  /\ result.overlay.data = mask_to_heatmap_png(m, AlphaScale)
                  /\ result.summary = generate_summary(f)

\* The place of each stage in the forward order of run_detection.
StageRank ==
    [preprocess |-> 1, get_model |-> 2, predict |-> 3, detect |-> 4,
     extract |-> 5, heatmap |-> 6, summary |-> 7]

\* C17: in a run_detection call the stages run in the order preprocessing,
\* mask production (the predictor, then the statistical detector), finding
\* extraction, heatmap rendering, summary, each at most once (no stage is
\* repeated, so the predictor and the statistical detector run at most once
\* each); a completed call has run preprocessing, one or both producers of
\* the mask, extraction, rendering and summary, and its findings and its
\* overlay are made from the one mask it holds.
C17_StagesOnceForward ==
    InPipeline =>
        /\ \A i \in 1..Len(trace) : \A j \in 1..Len(trace) :
              i < j => StageRank[trace[i]] < StageRank[trace[j]]
        /\ (pc = "done" /\ result.status = "completed") =>
              /\ trace \in {<<"preprocess", "get_model", "detect",
                              "extract", "heatmap", "summary">>,
                            <<"preprocess", "get_model", "predict",
                              "extract", "heatmap", "summary">>,
                            <<"preprocess", "get_model", "predict", "detect",
                              "extract", "heatmap", "summary">>}
              /\ mask /= NoGrid
              /\ findings = extract_findings_from_mask(mask, extraction_threshold(sensitivity))
              /\ overlay = mask_to_heatmap_png(mask, AlphaScale)
              /\ result.overlay.data = overlay
              /\ result.findings = [i \in 1..Len(findings) |-> to_dict(findings[i])]
\* A completed call in which the predictor ran once, raised, and the
\* statistical detector ran once after it.
C17_Witness ==
    /\ InPipeline /\ pc = "done" /\ result.status = "completed"
    /\ trace = <<"preprocess", "get_model", "predict", "detect",
                 "extract", "heatmap", "summary">>
    /\ findings /= <<>>

\* C18 as stated: the one load_model call is made on the first request, so
\* whenever a run_detection request has ended, load_model has been executed
\* exactly once and the handle is initialized.
C18_LoadedOnFirstRequest ==
    (caller = "run_detection" /\ pc = "done") => (_model_loaded /\ load_calls = 1)
\* Every request past _get_model finds the handle initialized by exactly one
\* load and uses it; a request that completes has passed _get_model; with no
\* model, a mask is the statistical detector's.
HandleInitializedOnce ==
    /\ load_calls <= 1
    /\ _model_loaded <=> load_calls = 1
    /\ ~_model_loaded => _model = None
    /\ (InPipeline /\ InTrace("get_model")) => (_model_loaded /\ model = _model)
    /\ (InPipeline /\ pc = "done" /\ result.status = "completed") => _model_loaded
    /\ (InPipeline /\ _model = None /\ mask /= NoGrid) =>
          (InTrace("detect") /\ ~InTrace("predict"))
\* A step leaves an initialized handle, the flag and the number of loads as
\* they are, and only the _get_model step of a request initializes them.
HandleNeverReloaded ==
    /\ _model_loaded =>
          (_model' = _model /\ _model_loaded' /\ load_calls' = load_calls)
    /\ (~_model_loaded /\ _model_loaded') =>
          (caller = "run_detection" /\ pc = "get_model")

\* C18, amended: with requests one after another, load_model is executed at
\* most once, by the first request whose input passes preprocessing (a
\* request that preprocessing rejects ends before _get_model is called):
\* every request past _get_model finds the handle initialized by exactly
\* one load and uses it; once initialized the handle, the flag and the
\* number of loads never change; and when the load returned no model every
\* request that produces a mask uses the statistical detector.
C18_LoadedOnceSequential ==
    []HandleInitializedOnce /\ [][HandleNeverReloaded]_vars
\* A completed request in segmentation mode, with PyTorch present, after the
\* one load returned no model: the statistical detector made its mask.
C18_Witness ==
    /\ InPipeline /\ pc = "done" /\ result.status = "completed"
    /\ analysis_type = "segmentation" /\ _torch_available
    /\ _model_loaded /\ _model = None /\ load_calls = 1
    /\ InTrace("detect") /\ findings /= <<>>

\* C19: the pruning loop removes whole components only.  After it, every
\* component of the cleaned mask is either gone or whole; it is whole when
\* it had at least min_size pixels and gone when it had fewer, its size
\* being the one of the labelling made before the loop; no pixel was added;
\* and the components that remain in the anomaly mask are those kept, each
\* of at least min_size pixels.
C19_PruningWholeComponents ==
    Pruned =>
        LET cleaned == UNION {labeled[i] : i \in 1..Len(labeled)}
            before == labeled
            after == label(anomaly_binary)
        IN  /\ TrueCells(anomaly_binary) \subseteq cleaned
            /\ \A i \in 1..Len(before) :
                  /\ Dropped(before[i]) \/ Kept(before[i])
                  /\ Cardinality(before[i]) >= min_size => Kept(before[i])
                  /\ Cardinality(before[i]) < min_size => Dropped(before[i])
            /\ \A j \in 1..Len(after) :
                  /\ Cardinality(after[j]) >= min_size
                  /\ \E i \in 1..Len(before) : after[j] = before[i]
\* The first component of the labelling was zeroed and a later one, large
\* enough, is whole.
C19_Witness ==
    /\ Pruned
    /\ Len(labeled) >= 2 /\ Dropped(labeled[1]) /\ Kept(labeled[2])
    /\ Len(label(anomaly_binary)) = 1

\* C20: the mask the statistical detector returns is all-zero or has the
\* maximum exactly 1, and it is all-zero exactly when no anomaly component
\* survived clean-up and pruning (or the detector returned early); the
\* extraction threshold lies in [0.1, 0.5]; so the findings of the
\* statistical path are empty exactly when the mask is all-zero.
C20_ZeroOrUnitMaximum ==
    /\ DetectorReturned =>
          /\ AllZero(mask) \/ GridMax(mask.num) = mask.den
          /\ AllZero(mask) <=>
                (anomaly_binary = NoGrid \/ TrueCells(anomaly_binary) = {})
    /\ (StatisticalMask /\ pc = "heatmap") =>
          LET t == extraction_threshold(sensitivity)
          IN  /\ 10 * t.num >= t.den /\ 2 * t.num <= t.den
              /\ findings = <<>> <=> AllZero(mask)
\* Findings of the statistical path from a mask with maximum 1 that also
\* holds values below one half.
C20_Witness ==
    /\ StatisticalMask /\ pc = "heatmap" /\ caller = "run_detection"
    /\ anomaly_binary /= NoGrid /\ TrueCells(anomaly_binary) /= {}
    /\ findings /= <<>> /\ GridMax(mask.num) = mask.den
    /\ \E p \in Cells : 0 < mask.num[p] /\ 2 * mask.num[p] < mask.den

\* The summary of a call whose mask came from the statistical detector.
StatisticalSummary == InTrace("summary") /\ StatisticalMask
RoutineWording == "Minor variations detected. Routine follow-up may be sufficient."
\* Finding i covers a pixel where the mask is 1, its peak.
HoldsUnitPeak(i) ==
    LET t == extraction_threshold(sensitivity)
        comps == label([p \in DOMAIN mask.num |-> mask_above(mask.num[p], mask.den, t)])
    IN  \E p \in comps[findings[i].label] : mask.num[p] = mask.den

\* C21: on the statistical path, a non-empty findings list holds a finding
\* whose component contains the maximum of the mask, 1, and that finding is
\* "moderate" or "high"; so the recommendation is the no-anomalies message
\* (exactly when there are no findings), the review message or the
\* urgent-review message, never the routine one.
C21_NeverRoutineOnStatisticalPath ==
    StatisticalSummary =>
        /\ findings /= <<>> =>
              \E i \in 1..Len(findings) :
                  /\ HoldsUnitPeak(i)
                  /\ findings[i].severity \in {"moderate", "high"}
        /\ summary.recommendation /= RoutineWording
        /\ summary.recommendation \in
              {"No significant anomalies detected.",
               "Regions of interest detected. Clinical review recommended.",
               "Significant regions of interest detected. Urgent clinical review recommended."}
        /\ summary.recommendation = "No significant anomalies detected."
              <=> findings = <<>>
\* A statistical mask all of whose findings are small (50 pixels or fewer),
\* so that only the peak lifts one of them to "moderate".
C21_Witness ==
    /\ StatisticalSummary /\ findings /= <<>>
    /\ \A i \in 1..Len(findings) : findings[i].confidence.area <= 50
    /\ summary.recommendation = "Regions of interest detected. Clinical review recommended."

\* extract_findings_from_mask has returned to a caller that called it on
\* its own.
Extracted == caller = "extract" /\ pc = "done"
\* The connected components of the cells where the mask is above the
\* threshold of the call.
ThresholdedComponents ==
    label([p \in DOMAIN mask.num |->
              FracLess(threshold.num, threshold.den, mask.num[p], mask.den)])
\* The number of findings is the number of components of the thresholded
\* mask, one finding for each.
OneFindingPerComponent ==
    /\ Len(findings) = Len(ThresholdedComponents)
    /\ {findings[i].label : i \in 1..Len(findings)} = 1..Len(ThresholdedComponents)
\* The largest value of the mask over the region.
PeakOver(region) == SetMax({mask.num[p] : p \in region})

\* C22 as stated: the findings are one for each connected component of the
\* thresholded mask, and the confidence returned with a finding is above the
\* threshold and at most the peak of the mask over its component, which is
\* at most 1.
C22_ConfidenceBetweenThresholdAndPeak ==
    Extracted =>
        /\ OneFindingPerComponent
        /\ \A i \in 1..Len(findings) :
              LET conf == findings[i].confidence.sum
                  peak == PeakOver(ThresholdedComponents[findings[i].label])
              IN  /\ threshold.num < conf
                  /\ conf <= peak
                  /\ peak <= FloatOne
\* C22, amended: the findings are one for each connected component of the
\* thresholded mask; over the component of a finding, threshold < mean <=
\* peak <= 1 for the exact mean and the maximum of the mask, the maximum
\* being the peak the severity is derived from; the confidence returned is
\* that mean as computed in floating point: it lies in [0, 1] and differs
\* from the exact mean by no more than the rounding of the n additions and
\* the division allows (a relative error of n / (2^MantissaBits - n) and
\* half a unit).
C22_MeanBetweenThresholdAndPeak ==
    Extracted =>
        /\ OneFindingPerComponent
        /\ \A i \in 1..Len(findings) :
              LET f == findings[i]
                  region == ThresholdedComponents[f.label]
                  n == Cardinality(region)
                  total == SumCells(mask.num, region)
                  peak == PeakOver(region)
                  conf == f.confidence.sum
                  slack == 2 ^ MantissaBits - n
              IN  /\ n * threshold.num < total
                  /\ total <= n * peak
                  /\ peak <= FloatOne
                  /\ region_peak(mask, region) = peak
                  /\ f.severity = severity_of(peak, mask.den, n)
                  /\ 0 <= conf /\ conf <= FloatOne
                  /\ slack > 0
                  /\ 2 * slack * Abs(n * conf - total) <= 2 * n * total + n * slack
\* A call that returns a finding whose confidence is above the peak of its
\* component and another whose confidence is below its peak.
C22_Witness ==
    /\ Extracted
    /\ \E i \in 1..Len(findings) :
          findings[i].confidence.sum > PeakOver(ThresholdedComponents[findings[i].label])
    /\ \E i \in 1..Len(findings) :
          findings[i].confidence.sum < PeakOver(ThresholdedComponents[findings[i].label])


\* A client that is open is the one the module handle refers to.
NoOpenClientUnreferenced ==
    \A c \in 1..Len(clients) : clients[c] = "open" => _client = c
\* A call of get_client returns a client that is not closed.
GetClientReturnsOpen ==
    \A t \in Tasks :
        (cpc[t] = "idle" /\ cpc'[t] = "got") => clients'[cclient'[t]] = "open"
\* When close_client clears the handle, the handle is None or the client
\* it closed, and no client is open afterwards.
ClearDiscardsNothing ==
    \A t \in Tasks :
        (cpc[t] = "aclose" /\ cpc'[t] = "closed") =>
            /\ _client \in {None, cclient[t]}
            /\ \A c \in 1..Len(clients') : clients'[c] = "closed"
\* C23: under any interleaving of get_client and close_client coroutines,
\* get_client never returns a closed client and no client it created is
\* open while the module handle does not refer to it; once close_client
\* has completed, no open client remains and the handle it cleared was not
\* that of a client created during the close.
C23_ClientNeverLeaked ==
    /\ []NoOpenClientUnreferenced
    /\ [][GetClientReturnsOpen /\ ClearDiscardsNothing]_vars

====
